---- MODULE Spec2Model ----
(***************************************************************************)
(* Model of the QuectelGnssRK acquisition engine: the public entry points  *)
(* called on caller threads, the worker thread (threadLoop), the two       *)
(* depth-1 queues between them, the modem and the clock.                   *)
(*                                                                         *)
(* Time is counted in ticks of half a poll interval.  Time passes only     *)
(* while a thread is inside a blocking call (a modem command, delay(), a   *)
(* queue wait); every other step takes no time.                            *)
(***************************************************************************)
EXTENDS Integers, Sequences, FiniteSets, TLC

(***************************************************************************)
(* Bounds                                                                  *)
(***************************************************************************)
\* maximumFixTime (seconds) of the configurations passed to begin()
MaxFixSeconds == 4
\* cap on the request id counter
MaxReqId == 2
\* number of getLocation / getLocationAsync calls made in a behaviour of Spec
MaxCalls == 2
\* number of getLocation / getLocationAsync calls made in a behaviour of PollSpec
MaxPollCalls == 1
\* how long the application is followed after boot, in seconds
MaxUptimeSeconds == 65
\* the caller threads
Callers == {"t1", "t2"}

(***************************************************************************)
(* Program constants                                                       *)
(***************************************************************************)
LOCATION_PERIOD_ACQUIRE_MS == 1000
LOCATION_REQUIRED_SETTLING_COUNT == 2
\* timeout handed to Cellular.command for the fix query and the accuracy query
QueryTimeoutMs == 1000
\* depth of _commandQueue and of _responseQueue
QueueDepth == 1
\* LocationConfiguration() defaults
DefaultHdop == 100
DefaultHacc == 50
DefaultMaxFixSeconds == 90
\* first request id
InitialReqId == 1

TickMs == LOCATION_PERIOD_ACQUIRE_MS \div 2
Ticks(ms) == ms \div TickMs

PIN_INVALID == "PIN_INVALID"
GNSS_ANT_PWR == "GNSS_ANT_PWR"

LocationResults ==
    {"Unavailable", "Unsupported", "Idle", "Acquiring", "Pending", "Fixed", "TimedOut"}

\* LocationConstellation bit values
LOCATION_CONST_GPS_ONLY == 0
LOCATION_CONST_GPS_GLONASS == 1

(***************************************************************************)
(* Configuration                                                           *)
(***************************************************************************)
\* LocationConfiguration()
DefaultConf ==
    [constellations |-> LOCATION_CONST_GPS_ONLY, antennaPin |-> PIN_INVALID,
     hdop |-> DefaultHdop, hacc |-> DefaultHacc, maxFixSeconds |-> DefaultMaxFixSeconds]

\* hdopThreshold without the upper clamp
hdopThresholdNoUpperClamp(hdop) == IF 0 > hdop THEN 0 ELSE hdop

\* LocationConfiguration::hdopThreshold(int)
hdopThreshold(hdop) == IF 0 > hdop THEN 0 ELSE IF 100 < hdop THEN 100 ELSE hdop

\* the configurations the application passes to begin()
Configs ==
    { [constellations |-> LOCATION_CONST_GPS_ONLY, antennaPin |-> pin,
       hdop |-> hdopThreshold(5), hacc |-> h, maxFixSeconds |-> secs] :
         pin \in {PIN_INVALID, GNSS_ANT_PWR}, h \in {5, DefaultHacc},
         secs \in {1, 2, MaxFixSeconds} }

\* LocationConfiguration::operator= : _hacc is not among the members copied
ConfAssign(lhs, rhs) ==
    [lhs EXCEPT !.constellations = rhs.constellations,
                !.antennaPin = rhs.antennaPin,
                !.hdop = rhs.hdop,
                !.maxFixSeconds = rhs.maxFixSeconds]

(***************************************************************************)
(* Response lines and the parsers                                          *)
(*                                                                         *)
(* A line is kept as what the scanners can tell apart: the prefix it       *)
(* carries and how many leading fields after the prefix convert.           *)
(*   qloc : "+QGPSLOC: " followed by nfields convertible fields (0..16)    *)
(*   cme  : "+CME ERROR: " followed by a number (code) or by nothing (-1)  *)
(*   epe  : +QGPSCFG: "estimation_error", followed by nfields (0..4)       *)
(*   empty: the empty string;  other: any other text                       *)
(***************************************************************************)
QlocFieldCount == 16
HdopField == 6
FixField == 8
CogDegreesField == 9
CogMinutesField == 10
SpeedField == 11

\* a fix report with its course over ground (degrees, minutes) and its speed in km/h
QlocMoving(n, hdop, fix, deg, min, kmph) ==
    [hdop |-> hdop, fix |-> fix, kind |-> "qloc", nfields |-> n,
     cogDegrees |-> deg, cogMinutes |-> min, speedKmph |-> kmph]
QlocLine(n, hdop, fix) == QlocMoving(n, hdop, fix, 0, 0, 0)
CmeLine(code) == [kind |-> "cme", code |-> code]
EpeLine(n, hacc, vacc) == [hacc |-> hacc, kind |-> "epe", nfields |-> n, vacc |-> vacc]
EmptyLine == [kind |-> "empty"]
OtherLine == [kind |-> "other"]

\* sscanf(buf, " +CME ERROR: %u", &error_code): number of conversions, -1 for EOF
ScanCme(buf) ==
    CASE buf.kind = "cme" -> IF buf.code >= 0 THEN 1 ELSE -1
      [] buf.kind = "empty" -> -1
      [] OTHER -> 0

\* sscanf(buf, " +QGPSLOC: ...") : number of conversions, -1 for EOF
ScanQloc(buf) ==
    CASE buf.kind = "qloc" -> IF buf.nfields > 0 THEN buf.nfields ELSE -1
      [] buf.kind = "empty" -> -1
      [] OTHER -> 0

\* sscanf(buf, " +QGPSCFG: \"estimation_error\",%f,%f,%f,%f") : conversions, -1 for EOF
ScanEpe(buf) ==
    CASE buf.kind = "epe" -> IF buf.nfields > 0 THEN buf.nfields ELSE -1
      [] buf.kind = "empty" -> -1
      [] OTHER -> 0

CmeWhitelist == {504, 505, 506, 516, 522, 549}

\* parseCmeError without its test for a line that carries no error marker
parseCmeErrorNoMarkerTest(buf) ==
    LET nargs == ScanCme(buf)
        error_code == IF nargs = 1 THEN buf.code ELSE 0
    IN IF error_code \in CmeWhitelist THEN error_code ELSE 999

\* QuectelGnssRK::parseCmeError; the result is the enum's number, 0 is NONE, 999 UNDEFINED
parseCmeError(buf) ==
    LET nargs == ScanCme(buf)
        error_code == IF nargs = 1 THEN buf.code ELSE 0
    IN IF 0 = nargs THEN 0
       ELSE IF error_code \in CmeWhitelist THEN error_code ELSE 999

CME_NONE == 0
CME_FIX == 1
CME_NO_FIX == 516
CME_UNKNOWN_ERROR == 549

\* QuectelGnssRK::parseQloc : [ret, context, point]; the point's speed is kept as the
\* number the code stores, its heading in sixtieths of a degree
parseQloc(buf, context, point) ==
    LET nargs == ScanQloc(buf)
        n == IF buf.kind = "qloc" THEN buf.nfields ELSE 0
        ctx == [hdop |-> IF n >= HdopField THEN buf.hdop ELSE context.hdop,
                fix |-> IF n >= FixField THEN buf.fix ELSE context.fix,
                cogDegrees |-> IF n >= CogDegreesField THEN buf.cogDegrees
                                                       ELSE context.cogDegrees,
                cogMinutes |-> IF n >= CogMinutesField THEN buf.cogMinutes
                                                       ELSE context.cogMinutes,
                speedKmph |-> IF n >= SpeedField THEN buf.speedKmph ELSE context.speedKmph]
    IN IF 0 = nargs
         THEN [context |-> context, point |-> point, ret |-> -1]
         ELSE [context |-> ctx,
               point |-> [point EXCEPT !.fix = ctx.fix, !.horizontalDop = ctx.hdop,
                                       !.speed = ctx.speedKmph * 1000,
                                       !.heading = ctx.cogDegrees * 60 + ctx.cogMinutes],
               ret |-> 0]

\* QuectelGnssRK::parseQlocResponse : [ret, context, point]
parseQlocResponse(buf, context, point) ==
    LET result == parseCmeError(buf)
        loc == parseQloc(buf, context, point)
    IN IF CME_NO_FIX = result
         THEN [context |-> context, point |-> [point EXCEPT !.fix = 0], ret |-> result]
       ELSE IF CME_NONE # result
         THEN [context |-> context, point |-> point, ret |-> CME_NONE]
       ELSE [context |-> loc.context, point |-> loc.point,
             ret |-> IF loc.ret = 0 THEN CME_FIX ELSE CME_UNKNOWN_ERROR]

\* QuectelGnssRK::parseEpeResponse : [context, point]
parseEpeResponse(buf, context, point) ==
    LET result == parseCmeError(buf)
        nargs == ScanEpe(buf)
        ctx == IF buf.kind = "epe" /\ buf.nfields >= 1
                 THEN [h_acc |-> buf.hacc,
                       v_acc |-> IF buf.nfields >= 2 THEN buf.vacc ELSE context.v_acc]
                 ELSE context
    IN IF CME_NONE # result
         THEN [context |-> context, point |-> point]
       ELSE IF nargs # 0
         THEN [context |-> ctx,
               point |-> [point EXCEPT !.horizontalAccuracy = ctx.h_acc,
                                       !.verticalAccuracy = ctx.v_acc]]
       ELSE [context |-> ctx, point |-> point]

\* memset(&point, 0, sizeof(LocationPoint)); timeToFirstFix is kept in milliseconds
ZeroPoint ==
    [fix |-> 0, horizontalDop |-> 0, speed |-> 0, heading |-> 0, horizontalAccuracy |-> 0,
     verticalAccuracy |-> 0, timeToFirstFix |-> 0]

(***************************************************************************)
(* Modem identity and capability                                           *)
(***************************************************************************)
\* values of CellularDevice::dev; DEV_UNKNOWN (0) while the identity is not cached yet
DEV_UNKNOWN == "DEV_UNKNOWN"
DEV_QUECTEL_BG95_M5 == "DEV_QUECTEL_BG95_M5"
DEV_QUECTEL_EG91_EX == "DEV_QUECTEL_EG91_EX"
DEV_OTHER == "DEV_OTHER"
DevIds == {DEV_QUECTEL_BG95_M5, DEV_QUECTEL_EG91_EX, DEV_OTHER}

\* QuectelGnssRK::modemNotDetected
modemNotDetected(modemType) == modemType = "Unavailable"

\* QuectelGnssRK::detectModemType : [detected, modemType]
detectModemType(modemType, on, dev) ==
    IF modemNotDetected(modemType) /\ on
      THEN CASE dev = DEV_UNKNOWN -> [modemType |-> modemType, detected |-> FALSE]
             [] dev = DEV_QUECTEL_BG95_M5 -> [modemType |-> "BG95_M5", detected |-> TRUE]
             [] dev = DEV_QUECTEL_EG91_EX -> [modemType |-> "EG91", detected |-> TRUE]
             [] OTHER -> [modemType |-> "Unsupported", detected |-> FALSE]
    ELSE IF ~modemNotDetected(modemType) /\ "Unsupported" # modemType
      THEN [modemType |-> modemType, detected |-> TRUE]
    ELSE [modemType |-> modemType, detected |-> FALSE]

\* flags & bit, for a LocationConstellation bit value (a power of two, or 0)
HasFlag(flags, bit) == bit # 0 /\ (flags \div bit) % 2 = 1

LOCATION_CONST_GPS_BEIDOU == 2
LOCATION_CONST_GPS_GALILEO == 4
LOCATION_CONST_GPS_QZSS == 8

\* QuectelGnssRK::setConstellation : the configNumber it computes, -1 when it
\* issues no AT+QGPSCFG="gnssconfig" command
setConstellation(modemType, flags) ==
    IF "BG95_M5" = modemType
      THEN IF HasFlag(flags, LOCATION_CONST_GPS_ONLY) \/ HasFlag(flags, LOCATION_CONST_GPS_GLONASS)
             THEN 1
           ELSE IF HasFlag(flags, LOCATION_CONST_GPS_BEIDOU) THEN 2
           ELSE IF HasFlag(flags, LOCATION_CONST_GPS_GALILEO) THEN 3
           ELSE IF HasFlag(flags, LOCATION_CONST_GPS_QZSS) THEN 4
           ELSE -1
    ELSE IF "EG91" = modemType
      THEN IF HasFlag(flags, LOCATION_CONST_GPS_ONLY) THEN 0
           ELSE IF HasFlag(flags, LOCATION_CONST_GPS_GLONASS) THEN 4
           ELSE IF HasFlag(flags, LOCATION_CONST_GPS_BEIDOU) THEN 7
           ELSE IF HasFlag(flags, LOCATION_CONST_GPS_GALILEO) THEN 6
           ELSE -1
    ELSE -1

\* accuracySupported answering true for every variant
accuracyOnEveryVariant(modemType) == TRUE

\* the test threadLoop makes before it enables and before it queries the accuracy estimate
accuracySupported(modemType) == "BG95_M5" = modemType

\* concurrentGnssAndCellularSupported answering true for every variant
concurrentOnEveryVariant(modemType) == TRUE

\* QuectelGnssRK::concurrentGnssAndCellularSupported
concurrentGnssAndCellularSupported(modemType) == ~("BG95_M5" = modemType)

(***************************************************************************)
(* State                                                                   *)
(***************************************************************************)
VARIABLES
    \* the engine's members
    begun, _conf, _antennaPowerPin, _modemType, _acquiring,
    _commandQueue, _responseQueue,
    _locBuffer, _epeBuffer, _qlocContext, _epeContext,
    gnssStarted, timeToFirstFixMs, lastLocation, lastResults, _reqid,
    \* the worker thread: its position in threadLoop and its locals
    wpc, event, fixCount, response, power, elapsed, opLeft,
    \* the caller threads: position, remaining wait, output point, publish argument
    cpc, waitLeft, point, publishArg,
    \* the number of getLocation / getLocationAsync calls made so far
    calls,
    \* the modem and the board; nmeaEpe: the command that enables the accuracy
    \* estimate has been sent
    modemOn, celldev, gnssOn, gnssconfig, nmeaEpe, antennaHigh,
    \* what the last step made observable: a call's return value or a callback
    obs,
    \* what the modem answered in the current acquisition: the kind of the last two
    \* fix-query responses, whether every fix query so far was answered by the no-fix
    \* error, and whether every query so far was answered by a line at all
    hist,
    \* the payload the last step handed to Particle.publish, and the request ids of
    \* all payloads handed over so far
    wire, sent,
    \* the application: LocationStateMachine's members, the clock millis() and
    \* updateStateMachine's static lastUpdate
    currentState, previousState, stateEntryTime, firstPublishCompleted, millis, lastUpdate

engineVars == <<begun, _conf, _antennaPowerPin, _modemType, _acquiring,
                _commandQueue, _responseQueue, _locBuffer, _epeBuffer,
                _qlocContext, _epeContext, gnssStarted, timeToFirstFixMs,
                lastLocation, lastResults, _reqid>>
workerVars == <<wpc, event, fixCount, response, power, elapsed, opLeft>>
callerVars == <<cpc, waitLeft, point, publishArg, calls>>
boardVars == <<modemOn, celldev, gnssOn, gnssconfig, nmeaEpe, antennaHigh>>
appVars == <<currentState, previousState, stateEntryTime, firstPublishCompleted,
             millis, lastUpdate>>
vars == <<engineVars, workerVars, callerVars, boardVars, obs, hist, wire, sent, appVars>>

\* LocationCommandContext(): the event waitOnCommandEvent returns on timeout
NoEvent == [command |-> "None", sendResponse |-> FALSE, doneCallback |-> FALSE,
            caller |-> "none"]
AcquireEvent(c, sync) ==
    [command |-> "Acquire", sendResponse |-> sync, doneCallback |-> ~sync, caller |-> c]

\* blocked: the call had enqueued its command and waited; pub: the request id of
\* the payload handed to the publish transport, 0 when none was
NoObs == [ev |-> "none"]
ReturnObs(c, api, value, blocked, pt, pub) ==
    [point |-> pt, caller |-> c, ev |-> "return", api |-> api, value |-> value,
     blocked |-> blocked, pub |-> pub]
CallbackObs(c, value, pt) == [point |-> pt, caller |-> c, ev |-> "callback", value |-> value]

\* toJsonWriter writing the accuracy fields whenever they are not negative
toJsonWriterZeroAccuracy(pt) ==
    IF 0 = pt.fix
      THEN [lck |-> 0, names |-> <<>>]
      ELSE [lck |-> 1,
            names |-> <<"time", "lat", "lon", "alt", "hd", "spd", "hdop">>
                      \o (IF 0 <= pt.horizontalAccuracy THEN <<"h_acc">> ELSE <<>>)
                      \o (IF 0 <= pt.verticalAccuracy THEN <<"v_acc">> ELSE <<>>)
                      \o <<"nsat", "ttff">>]

\* LocationPoint::toJsonWriter: the value of "lck" and the names written after it, in order
toJsonWriter(pt) ==
    IF 0 = pt.fix
      THEN [lck |-> 0, names |-> <<>>]
      ELSE [lck |-> 1,
            names |-> <<"time", "lat", "lon", "alt", "hd", "spd", "hdop">>
                      \o (IF 0 < pt.horizontalAccuracy THEN <<"h_acc">> ELSE <<>>)
                      \o (IF 0 < pt.verticalAccuracy THEN <<"v_acc">> ELSE <<>>)
                      \o <<"nsat", "ttff">>]

\* QuectelGnssRK::buildPublish: the "loc" object and the request id of the payload
\* ("cmd" is always "loc"; the optional "time" is the point's systemTime, not kept here)
buildPublish(pt, seq) == [loc |-> toJsonWriter(pt), req_id |-> seq]

\* nothing was handed to Particle.publish
NoWire == [api |-> "none"]
\* Particle.publish("loc", _publishBuffer), with the arguments and the connectivity the
\* caller had seen
Handed(api, publish, result, connected, pt, seq) ==
    [result |-> result, api |-> api, pt |-> pt, publish |-> publish,
     connected |-> connected, payload |-> buildPublish(pt, seq)]

\* getLocation publishing whatever the outcome of the acquisition was
PublishOnAnyOutcome(publish, result, connected) == publish /\ connected

\* QuectelGnssRK::getLocation: the test in front of the publish
ShouldPublish(publish, result, connected) == publish /\ "Fixed" = result /\ connected

\* the record of the modem's answers: "q" a fix report within the thresholds, "n" a fix
\* report outside them, "f" anything else (the no-fix error, no line)
NoHist == [recent |-> <<>>, allNoFix |-> TRUE, answered |-> TRUE]
Push(recent, status) ==
    IF Len(recent) < LOCATION_REQUIRED_SETTLING_COUNT THEN Append(recent, status)
    ELSE Append(Tail(recent), status)
IsFixReport(line) == line.kind = "qloc" /\ line.nfields = QlocFieldCount /\ line.fix # 0
FixStatus(line, conf) ==
    IF ~IsFixReport(line) THEN "f"
    ELSE IF line.hdop <= conf.hdop THEN "q" ELSE "n"
\* the accuracy report of the same poll, when one came, can disqualify the fix report
WithAccuracy(recent, line, conf) ==
    IF line.kind = "epe" /\ line.hacc > conf.hacc /\ recent[Len(recent)] = "q"
      THEN [recent EXCEPT ![Len(recent)] = "n"]
      ELSE recent

\* _locBuffer and _epeBuffer are not initialised by the constructor: what such a
\* buffer turns out to hold is settled when it is first read
Uninitialised == [kind |-> "uninitialised"]
Garbage == {EmptyLine, OtherLine}

Init ==
    /\ begun = FALSE
    /\ _conf = DefaultConf
    /\ _antennaPowerPin = PIN_INVALID
    /\ _modemType = "Unavailable"
    /\ _acquiring = FALSE
    /\ _commandQueue = <<>>
    /\ _responseQueue = <<>>
    /\ _locBuffer = Uninitialised
    /\ _epeBuffer = Uninitialised
    /\ _qlocContext = [hdop |-> 0, fix |-> 0, cogDegrees |-> 0, cogMinutes |-> 0,
                       speedKmph |-> 0]
    /\ _epeContext = [h_acc |-> 0, v_acc |-> 0]
    /\ gnssStarted = FALSE
    /\ timeToFirstFixMs = 0
    /\ lastLocation = ZeroPoint
    /\ lastResults = "Unavailable"
    /\ _reqid = InitialReqId
    /\ wpc = "idle"
    /\ event = NoEvent
    /\ fixCount = 0
    /\ response = "TimedOut"
    /\ power = FALSE
    /\ elapsed = 0
    /\ opLeft = 0
    /\ cpc = [c \in Callers |-> "idle"]
    /\ waitLeft = [c \in Callers |-> 0]
    /\ point = [c \in Callers |-> ZeroPoint]
    /\ publishArg = [c \in Callers |-> FALSE]
    /\ calls = 0
    /\ modemOn \in BOOLEAN
    /\ celldev = DEV_UNKNOWN
    /\ gnssOn = FALSE
    /\ gnssconfig = -1
    /\ nmeaEpe = FALSE
    /\ antennaHigh = FALSE
    /\ obs = NoObs
    /\ hist = NoHist
    /\ wire = NoWire
    /\ sent = <<>>
    /\ currentState = "WAITING_FOR_CLOUD"
    /\ previousState = "WAITING_FOR_CLOUD"
    /\ stateEntryTime = 0
    /\ firstPublishCompleted = FALSE
    /\ millis = 0
    /\ lastUpdate = 0

\* QuectelGnssRK::getStatus
getStatus == IF _acquiring THEN "Acquiring" ELSE "Idle"

(***************************************************************************)
(* Public entry points, on a caller thread                                 *)
(***************************************************************************)
\* os_queue_put(queue, &item, 0, nullptr): nothing is stored when the queue is full
QueuePut(queue, item) == IF Len(queue) < QueueDepth THEN Append(queue, item) ELSE queue

\* QuectelGnssRK::begin
Begin(cfg) ==
    /\ UNCHANGED hist
    /\ ~begun
    /\ begun' = TRUE
    /\ LET conf == ConfAssign(_conf, cfg)
           probe == modemOn /\ modemNotDetected(_modemType)
           det == detectModemType(_modemType, modemOn, celldev)
           configNumber == setConstellation(det.modemType, conf.constellations)
       IN /\ _conf' = conf
          /\ _antennaPowerPin' = conf.antennaPin
          /\ _modemType' = IF probe THEN det.modemType ELSE _modemType
          /\ gnssconfig' = IF probe /\ configNumber >= 0 THEN configNumber ELSE gnssconfig
    /\ obs' = NoObs
    /\ UNCHANGED <<_acquiring, _commandQueue, _responseQueue, _locBuffer, _epeBuffer,
                   _qlocContext, _epeContext, gnssStarted, timeToFirstFixMs,
                   lastLocation, lastResults, _reqid>>
    /\ UNCHANGED <<workerVars, callerVars, modemOn, celldev, gnssOn, nmeaEpe, antennaHigh>>
    /\ wire' = NoWire /\ UNCHANGED <<sent, appVars>>

\* PreCheck with the in-flight test moved in front of the power test
PreCheckPendingFirst ==
    LET det == detectModemType(_modemType, modemOn, celldev)
        probed == IF modemNotDetected(_modemType) THEN det.modemType ELSE _modemType
    IN IF _acquiring
         THEN [result |-> "Pending", modemType |-> _modemType]
       ELSE IF ~modemOn
         THEN [result |-> "Unavailable", modemType |-> _modemType]
       ELSE IF modemNotDetected(_modemType) /\ ~det.detected
         THEN [result |-> "Unsupported", modemType |-> probed]
       ELSE [result |-> "Accepted", modemType |-> probed]

\* the checks getLocation and getLocationAsync both make before they enqueue:
\* the result to return at once, or "Accepted", and the modem type they leave
PreCheck ==
    LET det == detectModemType(_modemType, modemOn, celldev)
        probed == IF modemNotDetected(_modemType) THEN det.modemType ELSE _modemType
    IN IF ~modemOn
         THEN [result |-> "Unavailable", modemType |-> _modemType]
       ELSE IF modemNotDetected(_modemType) /\ ~det.detected
         THEN [result |-> "Unsupported", modemType |-> probed]
       ELSE IF _acquiring
         THEN [result |-> "Pending", modemType |-> probed]
       ELSE [result |-> "Accepted", modemType |-> probed]

\* the part of an entry point up to the in-flight test: it returns at once or goes on to enqueue
Enter(c, api, next, maxCalls) ==
    /\ UNCHANGED hist
    /\ begun
    /\ cpc[c] = "idle"
    /\ calls < maxCalls
    /\ calls' = calls + 1
    /\ _modemType' = PreCheck.modemType
    /\ IF PreCheck.result = "Accepted"
         THEN /\ cpc' = [cpc EXCEPT ![c] = next]
              /\ obs' = NoObs
              /\ UNCHANGED lastResults
         ELSE /\ lastResults' = PreCheck.result
              /\ obs' = ReturnObs(c, api, PreCheck.result, FALSE, ZeroPoint, 0)
              /\ UNCHANGED cpc
    /\ UNCHANGED <<begun, _conf, _antennaPowerPin, _acquiring, _commandQueue,
                   _responseQueue, _locBuffer, _epeBuffer, _qlocContext, _epeContext,
                   gnssStarted, timeToFirstFixMs, lastLocation, _reqid>>
    /\ UNCHANGED <<workerVars, boardVars, waitLeft>>
    /\ wire' = NoWire /\ UNCHANGED <<sent, appVars>>

\* QuectelGnssRK::getLocation, up to the in-flight test
GetLocationEnter(c, publish, maxCalls) ==
    /\ Enter(c, "getLocation", "syncPut", maxCalls)
    /\ point' = [point EXCEPT ![c] = ZeroPoint]
    /\ publishArg' = [publishArg EXCEPT ![c] = publish /\ PreCheck.result = "Accepted"]

\* QuectelGnssRK::getLocation: the enqueue, and the start of the wait
GetLocationPut(c) ==
    /\ UNCHANGED hist
    /\ cpc[c] = "syncPut"
    /\ _commandQueue' = QueuePut(_commandQueue, AcquireEvent(c, TRUE))
    /\ cpc' = [cpc EXCEPT ![c] = "syncWait"]
    /\ waitLeft' = [waitLeft EXCEPT
                      ![c] = Ticks(_conf.maxFixSeconds * 1000 + LOCATION_PERIOD_ACQUIRE_MS)]
    /\ obs' = NoObs
    /\ UNCHANGED <<begun, _conf, _antennaPowerPin, _modemType, _acquiring,
                   _responseQueue, _locBuffer, _epeBuffer, _qlocContext, _epeContext,
                   gnssStarted, timeToFirstFixMs, lastLocation, lastResults, _reqid>>
    /\ UNCHANGED <<workerVars, boardVars, point, publishArg, calls>>
    /\ wire' = NoWire /\ UNCHANGED <<sent, appVars>>

\* QuectelGnssRK::getLocation from the end of waitOnResponseEvent: the wait ends
\* with the queued response, or with Idle when the timeout has run out
GetLocationReturn(c) ==
    /\ UNCHANGED hist
    /\ cpc[c] = "syncWait"
    /\ Len(_responseQueue) > 0 \/ waitLeft[c] = 0
    /\ LET result == IF Len(_responseQueue) > 0 THEN Head(_responseQueue) ELSE "Idle"
       IN /\ _responseQueue' = IF Len(_responseQueue) > 0 THEN Tail(_responseQueue)
                                                           ELSE _responseQueue
          /\ \E connected \in IF _reqid < MaxReqId THEN BOOLEAN ELSE {FALSE},
                published \in BOOLEAN :
               IF ShouldPublish(publishArg[c], result, connected)
                 THEN /\ _reqid' = IF published THEN _reqid + 1 ELSE _reqid
                      /\ obs' = ReturnObs(c, "getLocation", result, TRUE, point[c], _reqid)
                      /\ wire' = Handed("getLocation", publishArg[c], result, connected,
                                        point[c], _reqid)
                      /\ sent' = Append(sent, _reqid)
                 ELSE /\ _reqid' = _reqid
                      /\ obs' = ReturnObs(c, "getLocation", result, TRUE, point[c], 0)
                      /\ wire' = NoWire
                      /\ sent' = sent
    /\ cpc' = [cpc EXCEPT ![c] = "idle"]
    /\ waitLeft' = [waitLeft EXCEPT ![c] = 0]
    /\ point' = [point EXCEPT ![c] = ZeroPoint]
    /\ publishArg' = [publishArg EXCEPT ![c] = FALSE]
    /\ UNCHANGED <<begun, _conf, _antennaPowerPin, _modemType, _acquiring,
                   _commandQueue, _locBuffer, _epeBuffer, _qlocContext, _epeContext,
                   gnssStarted, timeToFirstFixMs, lastLocation, lastResults>>
    /\ UNCHANGED <<workerVars, boardVars, calls>>
    /\ UNCHANGED appVars

\* the points a caller passes to publishLocationEvent
PublishPoints ==
    { [ZeroPoint EXCEPT !.fix = f, !.horizontalAccuracy = h, !.verticalAccuracy = v] :
        f \in {0, 1}, h \in {-1, 0, 10}, v \in {-1, 0, 7} }

\* QuectelGnssRK::publishLocationEvent; a null point stands for lastLocation
PublishLocationEvent(c, points) ==
    /\ cpc[c] = "idle"
    /\ \E pt \in points \cup {lastLocation},
          connected \in IF _reqid < MaxReqId THEN BOOLEAN ELSE {FALSE},
          published \in BOOLEAN :
         IF connected
           THEN /\ _reqid' = _reqid + 1
                /\ wire' = Handed("publishLocationEvent", TRUE, "none", connected, pt, _reqid)
                /\ sent' = Append(sent, _reqid)
                /\ obs' = ReturnObs(c, "publishLocationEvent",
                                    IF published THEN "true" ELSE "false", FALSE, pt, _reqid)
           ELSE /\ _reqid' = _reqid
                /\ wire' = NoWire
                /\ sent' = sent
                /\ obs' = ReturnObs(c, "publishLocationEvent", "false", FALSE, pt, 0)
    /\ UNCHANGED <<begun, _conf, _antennaPowerPin, _modemType, _acquiring, _commandQueue,
                   _responseQueue, _locBuffer, _epeBuffer, _qlocContext, _epeContext,
                   gnssStarted, timeToFirstFixMs, lastLocation, lastResults>>
    /\ UNCHANGED <<workerVars, callerVars, boardVars, hist, appVars>>

\* QuectelGnssRK::getLocationAsync, up to the in-flight test
GetLocationAsyncEnter(c, maxCalls) ==
    /\ Enter(c, "getLocationAsync", "asyncPut", maxCalls)
    /\ UNCHANGED <<point, publishArg>>

\* QuectelGnssRK::getLocationAsync: the enqueue and the return of Acquiring.
\* The caller then makes no further call until its callback has run.
GetLocationAsyncPut(c) ==
    /\ UNCHANGED hist
    /\ cpc[c] = "asyncPut"
    /\ _commandQueue' = QueuePut(_commandQueue, AcquireEvent(c, FALSE))
    /\ cpc' = [cpc EXCEPT ![c] = "asyncPending"]
    /\ obs' = ReturnObs(c, "getLocationAsync", "Acquiring", FALSE, ZeroPoint, 0)
    /\ UNCHANGED <<begun, _conf, _antennaPowerPin, _modemType, _acquiring,
                   _responseQueue, _locBuffer, _epeBuffer, _qlocContext, _epeContext,
                   gnssStarted, timeToFirstFixMs, lastLocation, lastResults, _reqid>>
    /\ UNCHANGED <<workerVars, boardVars, waitLeft, point, publishArg, calls>>
    /\ wire' = NoWire /\ UNCHANGED <<sent, appVars>>

\* QuectelGnssRK::addToEventHandler: its call of getLocationAsync up to the in-flight
\* test. The value getLocationAsync returns is not looked at: the handler goes on
\* to its wait loop whether or not a command will be enqueued.
AddToEventHandlerEnter(c, maxCalls) ==
    /\ UNCHANGED hist
    /\ begun
    /\ cpc[c] = "idle"
    /\ calls < maxCalls
    /\ calls' = calls + 1
    /\ _modemType' = PreCheck.modemType
    /\ IF PreCheck.result = "Accepted"
         THEN /\ cpc' = [cpc EXCEPT ![c] = "hookPut"]
              /\ UNCHANGED lastResults
         ELSE /\ lastResults' = PreCheck.result
              /\ cpc' = [cpc EXCEPT ![c] = "hookSpin"]
    /\ obs' = NoObs
    /\ UNCHANGED <<begun, _conf, _antennaPowerPin, _acquiring, _commandQueue,
                   _responseQueue, _locBuffer, _epeBuffer, _qlocContext, _epeContext,
                   gnssStarted, timeToFirstFixMs, lastLocation, _reqid>>
    /\ UNCHANGED <<workerVars, boardVars, waitLeft, point, publishArg>>
    /\ wire' = NoWire /\ UNCHANGED <<sent, appVars>>

\* addToEventHandler: the enqueue inside getLocationAsync, then while(!done) delay(1)
AddToEventHandlerPut(c) ==
    /\ UNCHANGED hist
    /\ cpc[c] = "hookPut"
    /\ _commandQueue' = QueuePut(_commandQueue, AcquireEvent(c, FALSE))
    /\ cpc' = [cpc EXCEPT ![c] = "hookSpin"]
    /\ obs' = NoObs
    /\ UNCHANGED <<begun, _conf, _antennaPowerPin, _modemType, _acquiring,
                   _responseQueue, _locBuffer, _epeBuffer, _qlocContext, _epeContext,
                   gnssStarted, timeToFirstFixMs, lastLocation, lastResults, _reqid>>
    /\ UNCHANGED <<workerVars, boardVars, waitLeft, point, publishArg, calls>>
    /\ wire' = NoWire /\ UNCHANGED <<sent, appVars>>

\* addToEventHandler: the callback has set done, the wait loop ends and the handler returns
AddToEventHandlerReturn(c) ==
    /\ UNCHANGED hist
    /\ cpc[c] = "hookDone"
    /\ cpc' = [cpc EXCEPT ![c] = "idle"]
    /\ obs' = ReturnObs(c, "addToEventHandler", "void", TRUE, ZeroPoint, 0)
    /\ UNCHANGED <<engineVars, workerVars, boardVars, waitLeft, point, publishArg, calls>>
    /\ wire' = NoWire /\ UNCHANGED <<sent, appVars>>

(***************************************************************************)
(* The worker thread: QuectelGnssRK::threadLoop                            *)
(***************************************************************************)
\* what a modem command can bring back: a line the callback copies, or nothing
\* (command timeout, or only lines of a type the callback does not copy)
NoLine == [kind |-> "none"]
PollLines == {QlocLine(QlocFieldCount, 1, 1), QlocLine(QlocFieldCount, 9, 1), CmeLine(516)}
EpeLines == {EpeLine(4, 10, 0), EpeLine(4, 60, 7)}

\* how long a modem command with the given timeout can block, in ticks
Durations(timeoutMs) == 0 .. Ticks(timeoutMs)

\* glocCallback / epeCallback: a received line replaces the buffer, and without one
\* the buffer keeps what it held
Received(buffer, line, garbage) ==
    IF line # NoLine THEN line
    ELSE IF buffer = Uninitialised THEN garbage
    ELSE buffer

\* the stabilization test at the end of a poll that parsed as a fix
Settled(count, pt, conf) ==
    /\ LOCATION_REQUIRED_SETTLING_COUNT = count
    /\ pt.horizontalDop <= conf.hdop
    /\ pt.horizontalAccuracy <= conf.hacc

\* waitOnCommandEvent returned a command, and the switch on it
WorkerTake ==
    /\ UNCHANGED hist
    /\ wpc = "idle"
    /\ Len(_commandQueue) > 0
    /\ event' = Head(_commandQueue)
    /\ _commandQueue' = Tail(_commandQueue)
    /\ wpc' = CASE Head(_commandQueue).command = "Acquire" -> "taken"
                [] Head(_commandQueue).command = "Exit" -> "exited"
                [] OTHER -> "idle"
    /\ obs' = NoObs
    /\ UNCHANGED <<begun, _conf, _antennaPowerPin, _modemType, _acquiring,
                   _responseQueue, _locBuffer, _epeBuffer, _qlocContext, _epeContext,
                   gnssStarted, timeToFirstFixMs, lastLocation, lastResults, _reqid>>
    /\ UNCHANGED <<fixCount, response, power, elapsed, opLeft>>
    /\ UNCHANGED <<callerVars, boardVars>>
    /\ wire' = NoWire /\ UNCHANGED <<sent, appVars>>

\* QuectelGnssRK::setAntennaPower: the level of the antenna pin after the call
setAntennaPower(pin, level) == IF PIN_INVALID # pin THEN TRUE ELSE level

\* clearAntennaPower that leaves the pin as it is
clearAntennaPowerKeepsLevel(pin, level) == level

\* QuectelGnssRK::clearAntennaPower: the level of the antenna pin after the call
clearAntennaPower(pin, level) == IF PIN_INVALID # pin THEN FALSE ELSE level

\* case Acquire, down to the start of the poll loop
WorkerStartAcquire ==
    /\ wpc = "taken"
    /\ hist' = NoHist
    /\ _acquiring' = TRUE
    /\ lastLocation' = ZeroPoint
    /\ IF ~gnssStarted
         THEN LET configNumber == setConstellation(_modemType, _conf.constellations)
              IN /\ antennaHigh' = setAntennaPower(_antennaPowerPin, antennaHigh)
                 /\ gnssOn' = IF modemOn THEN TRUE ELSE gnssOn
                 /\ nmeaEpe' = IF accuracySupported(_modemType) THEN TRUE ELSE nmeaEpe
                 /\ gnssconfig' = IF modemOn /\ configNumber >= 0 THEN configNumber
                                                                  ELSE gnssconfig
                 /\ gnssStarted' = TRUE
                 /\ timeToFirstFixMs' = 0
         ELSE UNCHANGED <<antennaHigh, gnssOn, nmeaEpe, gnssconfig, gnssStarted,
                          timeToFirstFixMs>>
    /\ fixCount' = 0
    /\ response' = "TimedOut"
    /\ power' = FALSE
    /\ elapsed' = 0
    /\ wpc' = "loopTop"
    /\ obs' = NoObs
    /\ UNCHANGED <<begun, _conf, _antennaPowerPin, _modemType, _commandQueue,
                   _responseQueue, _locBuffer, _epeBuffer, _qlocContext, _epeContext,
                   lastResults, _reqid>>
    /\ UNCHANGED <<event, opLeft, callerVars, modemOn, celldev>>
    /\ wire' = NoWire /\ UNCHANGED <<sent, appVars>>

\* WorkerLoopTop with the elapsed time tested before the modem's power is read
WorkerLoopTopTimeFirst ==
    /\ UNCHANGED hist
    /\ wpc = "loopTop"
    /\ power' = (modemOn \/ elapsed * TickMs >= _conf.maxFixSeconds * 1000)
    /\ IF ~modemOn \/ elapsed * TickMs >= _conf.maxFixSeconds * 1000
         THEN /\ wpc' = "finish"
              /\ UNCHANGED opLeft
         ELSE /\ wpc' = "query"
              /\ opLeft' \in Durations(QueryTimeoutMs)
    /\ obs' = NoObs
    /\ UNCHANGED <<engineVars, event, fixCount, response, elapsed, callerVars, boardVars>>
    /\ wire' = NoWire /\ UNCHANGED <<sent, appVars>>

\* the loop condition, the test of the elapsed time, and the issue of the fix query
WorkerLoopTop ==
    /\ UNCHANGED hist
    /\ wpc = "loopTop"
    /\ power' = modemOn
    /\ IF ~modemOn \/ elapsed * TickMs >= _conf.maxFixSeconds * 1000
         THEN /\ wpc' = "finish"
              /\ UNCHANGED opLeft
         ELSE /\ wpc' = "query"
              /\ opLeft' \in Durations(QueryTimeoutMs)
    /\ obs' = NoObs
    /\ UNCHANGED <<engineVars, event, fixCount, response, elapsed, callerVars, boardVars>>
    /\ wire' = NoWire /\ UNCHANGED <<sent, appVars>>

\* the rest of an iteration once a fix was counted and the accuracy, if any, merged
AfterFix(count, pt) ==
    IF Settled(count, pt, _conf)
      THEN /\ response' = "Fixed"
           /\ wpc' = "finish"
           /\ opLeft' = 0
      ELSE /\ response' = response
           /\ wpc' = "delay"
           /\ opLeft' = Ticks(LOCATION_PERIOD_ACQUIRE_MS)

\* the fix query has returned: parse the buffer and count the fix
WorkerQueryDone(lines) ==
    /\ wpc = "query"
    /\ opLeft = 0
    /\ \E line \in IF modemOn THEN lines \cup {NoLine} ELSE {NoLine}, garbage \in Garbage :
         LET buf == Received(_locBuffer, line, garbage)
             parsed == parseQlocResponse(buf, _qlocContext, lastLocation)
         IN /\ hist' = [recent |-> Push(hist.recent, FixStatus(line, _conf)),
                        allNoFix |-> hist.allNoFix /\ line = CmeLine(CME_NO_FIX),
                        answered |-> hist.answered /\ line # NoLine]
            /\ _locBuffer' = buf
            /\ _qlocContext' = parsed.context
            /\ lastLocation' = parsed.point
            /\ IF CME_FIX = parsed.ret
                 THEN /\ fixCount' = fixCount + 1
                      /\ timeToFirstFixMs' = IF 0 = timeToFirstFixMs THEN elapsed * TickMs
                                                                      ELSE timeToFirstFixMs
                      /\ IF accuracySupported(_modemType)
                           THEN /\ wpc' = "epe"
                                /\ opLeft' \in Durations(QueryTimeoutMs)
                                /\ response' = response
                           ELSE AfterFix(fixCount + 1, parsed.point)
                 ELSE /\ wpc' = "delay"
                      /\ opLeft' = Ticks(LOCATION_PERIOD_ACQUIRE_MS)
                      /\ UNCHANGED <<fixCount, timeToFirstFixMs, response>>
    /\ obs' = NoObs
    /\ UNCHANGED <<begun, _conf, _antennaPowerPin, _modemType, _acquiring, _commandQueue,
                   _responseQueue, _epeBuffer, _epeContext, gnssStarted, lastResults, _reqid>>
    /\ UNCHANGED <<event, power, elapsed, callerVars, boardVars>>
    /\ wire' = NoWire /\ UNCHANGED <<sent, appVars>>

\* the accuracy query has returned: merge it, then the stabilization test
WorkerEpeDone(epes) ==
    /\ wpc = "epe"
    /\ opLeft = 0
    /\ \E line \in IF modemOn THEN epes \cup {NoLine} ELSE {NoLine}, garbage \in Garbage :
         LET buf == Received(_epeBuffer, line, garbage)
             parsed == parseEpeResponse(buf, _epeContext, lastLocation)
         IN /\ hist' = [hist EXCEPT !.recent = WithAccuracy(hist.recent, line, _conf),
                                     !.answered = hist.answered /\ line # NoLine]
            /\ _epeBuffer' = buf
            /\ _epeContext' = parsed.context
            /\ lastLocation' = parsed.point
            /\ AfterFix(fixCount, parsed.point)
    /\ obs' = NoObs
    /\ UNCHANGED <<begun, _conf, _antennaPowerPin, _modemType, _acquiring, _commandQueue,
                   _responseQueue, _locBuffer, _qlocContext, gnssStarted,
                   timeToFirstFixMs, lastResults, _reqid>>
    /\ UNCHANGED <<event, fixCount, power, elapsed, callerVars, boardVars>>
    /\ wire' = NoWire /\ UNCHANGED <<sent, appVars>>

\* delay(LOCATION_PERIOD_ACQUIRE_MS) has returned
WorkerDelayDone ==
    /\ UNCHANGED hist
    /\ wpc = "delay"
    /\ opLeft = 0
    /\ wpc' = "loopTop"
    /\ obs' = NoObs
    /\ UNCHANGED <<engineVars, event, fixCount, response, power, elapsed, opLeft,
                   callerVars, boardVars>>
    /\ wire' = NoWire /\ UNCHANGED <<sent, appVars>>

\* after the loop: revert the hardware, settle the outcome, store and deliver it
WorkerComplete ==
    /\ UNCHANGED hist
    /\ wpc = "finish"
    /\ LET result == IF ~power /\ "Fixed" # response THEN "Unavailable" ELSE response
           pt == IF timeToFirstFixMs # 0
                   THEN [lastLocation EXCEPT !.timeToFirstFix = timeToFirstFixMs]
                   ELSE lastLocation
       IN /\ IF ~concurrentGnssAndCellularSupported(_modemType)
               THEN /\ gnssOn' = FALSE
                    /\ antennaHigh' = clearAntennaPower(_antennaPowerPin, antennaHigh)
                    /\ gnssStarted' = FALSE
               ELSE UNCHANGED <<gnssOn, antennaHigh, gnssStarted>>
          /\ response' = result
          /\ lastLocation' = pt
          /\ point' = IF event.sendResponse THEN [point EXCEPT ![event.caller] = pt]
                                            ELSE point
          /\ lastResults' = result
          /\ IF event.sendResponse
               THEN /\ _responseQueue' = QueuePut(_responseQueue, result)
                    /\ obs' = NoObs
                    /\ UNCHANGED cpc
               ELSE IF event.doneCallback
                 THEN /\ obs' = CallbackObs(event.caller, result, pt)
                      /\ cpc' = [cpc EXCEPT ![event.caller] =
                                   IF cpc[event.caller] = "hookSpin" THEN "hookDone"
                                                                     ELSE "idle"]
                      /\ UNCHANGED _responseQueue
               ELSE /\ obs' = NoObs
                    /\ UNCHANGED <<cpc, _responseQueue>>
    /\ wpc' = "release"
    /\ UNCHANGED <<begun, _conf, _antennaPowerPin, _modemType, _acquiring, _commandQueue,
                   _locBuffer, _epeBuffer, _qlocContext, _epeContext,
                   timeToFirstFixMs, _reqid>>
    /\ UNCHANGED <<event, fixCount, power, elapsed, opLeft, waitLeft, publishArg, calls,
                   modemOn, celldev, gnssconfig, nmeaEpe>>
    /\ wire' = NoWire /\ UNCHANGED <<sent, appVars>>

\* WorkerRelease without the scope guard's store to _acquiring
WorkerReleaseKeepsFlag ==
    /\ wpc = "release"
    /\ _acquiring' = _acquiring
    /\ wpc' = "idle"
    /\ hist' = NoHist
    /\ event' = NoEvent
    /\ fixCount' = 0
    /\ response' = "TimedOut"
    /\ power' = FALSE
    /\ elapsed' = 0
    /\ obs' = NoObs
    /\ UNCHANGED <<begun, _conf, _antennaPowerPin, _modemType, _commandQueue,
                   _responseQueue, _locBuffer, _epeBuffer, _qlocContext, _epeContext,
                   gnssStarted, timeToFirstFixMs, lastLocation, lastResults, _reqid>>
    /\ UNCHANGED <<opLeft, callerVars, boardVars>>
    /\ wire' = NoWire /\ UNCHANGED <<sent, appVars>>

\* SCOPE_GUARD at the end of case Acquire; the locals of the case go out of scope
WorkerRelease ==
    /\ wpc = "release"
    /\ _acquiring' = FALSE
    /\ wpc' = "idle"
    /\ hist' = NoHist
    /\ event' = NoEvent
    /\ fixCount' = 0
    /\ response' = "TimedOut"
    /\ power' = FALSE
    /\ elapsed' = 0
    /\ obs' = NoObs
    /\ UNCHANGED <<begun, _conf, _antennaPowerPin, _modemType, _commandQueue,
                   _responseQueue, _locBuffer, _epeBuffer, _qlocContext, _epeContext,
                   gnssStarted, timeToFirstFixMs, lastLocation, lastResults, _reqid>>
    /\ UNCHANGED <<opLeft, callerVars, boardVars>>
    /\ wire' = NoWire /\ UNCHANGED <<sent, appVars>>

(***************************************************************************)
(* The modem, the board and the clock                                      *)
(***************************************************************************)
\* Cellular.on() / Cellular.off() by the application or the system
ModemPower ==
    /\ UNCHANGED hist
    /\ modemOn' = ~modemOn
    /\ gnssOn' = IF modemOn THEN FALSE ELSE gnssOn
    /\ obs' = NoObs
    /\ UNCHANGED <<engineVars, workerVars, callerVars, celldev, gnssconfig, nmeaEpe,
                   antennaHigh>>
    /\ wire' = NoWire /\ UNCHANGED <<sent, appVars>>

\* the lower transport caches the identity of the powered modem
CacheIdentity(devs) ==
    /\ UNCHANGED hist
    /\ modemOn
    /\ celldev = DEV_UNKNOWN
    /\ celldev' \in devs
    /\ obs' = NoObs
    /\ UNCHANGED <<engineVars, workerVars, callerVars, modemOn, gnssOn, gnssconfig,
                   nmeaEpe, antennaHigh>>
    /\ wire' = NoWire /\ UNCHANGED <<sent, appVars>>

Blocked(c) == cpc[c] = "syncWait"
InTimedCall == wpc \in {"query", "epe", "delay"}

\* half a poll interval passes: only while every thread is idle or inside a
\* blocking call that has not run out, and some blocking call is running
Tick ==
    /\ UNCHANGED hist
    /\ \A c \in Callers :
         /\ cpc[c] \in {"idle", "asyncPending", "syncWait", "hookSpin"}
         /\ Blocked(c) => waitLeft[c] > 0 /\ Len(_responseQueue) = 0
    /\ wpc \in {"idle", "exited", "query", "epe", "delay"}
    /\ wpc = "idle" => Len(_commandQueue) = 0
    /\ InTimedCall => opLeft > 0
    /\ InTimedCall \/ \E c \in Callers : Blocked(c)
    /\ opLeft' = IF InTimedCall THEN opLeft - 1 ELSE opLeft
    /\ elapsed' = IF InTimedCall THEN elapsed + 1 ELSE elapsed
    /\ waitLeft' = [c \in Callers |-> IF Blocked(c) THEN waitLeft[c] - 1 ELSE waitLeft[c]]
    /\ obs' = NoObs
    /\ UNCHANGED <<engineVars, wpc, event, fixCount, response, power, cpc, point,
                   publishArg, calls, boardVars>>
    /\ wire' = NoWire /\ UNCHANGED <<sent, appVars>>

\* every step of the engine and its environment, for the given caller threads,
\* configurations handed to begin(), publish arguments, modem identities,
\* fix-query responses, accuracy-query responses and number of calls
Step(callers, configs, publishes, devs, lines, epes, maxCalls) ==
    \/ \E cfg \in configs : Begin(cfg)
    \/ \E c \in callers, publish \in publishes : GetLocationEnter(c, publish, maxCalls)
    \/ \E c \in callers : GetLocationPut(c)
    \/ \E c \in callers : GetLocationReturn(c)
    \/ \E c \in callers : GetLocationAsyncEnter(c, maxCalls)
    \/ \E c \in callers : GetLocationAsyncPut(c)
    \/ WorkerTake
    \/ WorkerStartAcquire
    \/ WorkerLoopTop
    \/ WorkerQueryDone(lines)
    \/ WorkerEpeDone(epes)
    \/ WorkerDelayDone
    \/ WorkerComplete
    \/ WorkerRelease
    \/ ModemPower
    \/ CacheIdentity(devs)
    \/ Tick

\* two caller threads, a one-second fix window
Next == Step(Callers,
             {cfg \in Configs : cfg.maxFixSeconds = 1 /\ cfg.antennaPin = GNSS_ANT_PWR},
             {FALSE}, DevIds,
             {QlocLine(QlocFieldCount, 1, 1)}, {EpeLine(4, 10, 0)}, MaxCalls)
Spec == Init /\ [][Next]_vars

\* one caller thread, a fix window long enough for four polls
PollNext == Step({"t1"},
                 {cfg \in Configs : cfg.maxFixSeconds = MaxFixSeconds /\ cfg.antennaPin = PIN_INVALID},
                 BOOLEAN, {DEV_QUECTEL_EG91_EX, DEV_QUECTEL_BG95_M5},
                 PollLines, EpeLines, MaxPollCalls)
PollSpec == Init /\ [][PollNext]_vars

\* one caller thread, a fix window of two polls, a modem that reports a fix or none
SettleNext == Step({"t1"},
                   {cfg \in Configs : cfg.maxFixSeconds = 2 /\ cfg.antennaPin = GNSS_ANT_PWR},
                   {FALSE}, DevIds,
                   {QlocLine(QlocFieldCount, 1, 1), CmeLine(CME_NO_FIX)}, {EpeLine(4, 10, 0)},
                   MaxPollCalls)
SettleSpec == Init /\ [][SettleNext]_vars

\* the worker, the clock and a caller inside a call always take their next step
FairSettleSpec ==
    /\ SettleSpec
    /\ WF_vars(WorkerTake) /\ WF_vars(WorkerStartAcquire) /\ WF_vars(WorkerLoopTop)
    /\ WF_vars(WorkerQueryDone({QlocLine(QlocFieldCount, 1, 1), CmeLine(CME_NO_FIX)}))
    /\ WF_vars(WorkerEpeDone({EpeLine(4, 10, 0)}))
    /\ WF_vars(WorkerDelayDone) /\ WF_vars(WorkerComplete) /\ WF_vars(WorkerRelease)
    /\ WF_vars(GetLocationPut("t1")) /\ WF_vars(GetLocationReturn("t1"))
    /\ WF_vars(GetLocationAsyncPut("t1"))
    /\ WF_vars(Tick)

\* the two caller threads of Spec, with the event-enrichment hook among their calls
HookNext ==
    \/ Next
    \/ \E c \in Callers : AddToEventHandlerEnter(c, MaxCalls)
    \/ \E c \in Callers : AddToEventHandlerPut(c)
    \/ \E c \in Callers : AddToEventHandlerReturn(c)
HookSpec == Init /\ [][HookNext]_vars

\* begin() alone, for every constellation selection, on every modem
Constellations ==
    {LOCATION_CONST_GPS_ONLY, LOCATION_CONST_GPS_GLONASS, LOCATION_CONST_GPS_BEIDOU,
     LOCATION_CONST_GPS_GALILEO, LOCATION_CONST_GPS_QZSS}
BeginConfigs == {[cfg EXCEPT !.constellations = k] : cfg \in Configs, k \in Constellations}
BeginNext ==
    \/ \E cfg \in BeginConfigs : Begin(cfg)
    \/ ModemPower
    \/ CacheIdentity(DevIds)
BeginSpec == Init /\ [][BeginNext]_vars

\* one caller thread and a modem whose fix-query answers are complete, cut short
\* after the prefix or after three fields, or some other text
ParseLines ==
    {QlocLine(QlocFieldCount, 1, 1), QlocLine(3, 1, 1), QlocLine(0, 1, 1), OtherLine}
ParseNext == Step({"t1"},
                  {cfg \in Configs : cfg.maxFixSeconds = 2 /\ cfg.antennaPin = PIN_INVALID},
                  {FALSE}, {DEV_QUECTEL_EG91_EX, DEV_QUECTEL_BG95_M5},
                  ParseLines, {EpeLine(4, 10, 0)}, MaxPollCalls)
ParseSpec == Init /\ [][ParseNext]_vars

(***************************************************************************)
(* Properties                                                              *)
(***************************************************************************)
\* a request is in flight: enqueued, or being executed by the worker and its
\* completion not yet delivered
Executing == wpc \in {"taken", "loopTop", "query", "epe", "delay", "finish"}
InFlight == Len(_commandQueue) > 0 \/ Executing
\* this step is the entry of a caller into getLocation or getLocationAsync
CallMade == calls' = calls + 1
\* the outcome of the step is the immediate return of the given result
Rejected(value) == obs'.ev = "return" /\ ~obs'.blocked /\ obs'.value = value

\* C1: for every sequence of responses to the queries of an acquisition, the worker
\* reports Fixed only when the two most recent fix-query responses were both fix
\* reports within the HDOP and (when available) accuracy thresholds
C1_FixedOnlyAfterTwoQualifying ==
    (response = "Fixed" /\ hist.answered) => hist.recent = <<"q", "q">>

\* C2: whenever the two most recent fix-query responses of an acquisition are both
\* qualifying fix reports, the acquisition is Fixed, whatever came before them
C2_TwoQualifyingEndFixed ==
    (Executing /\ wpc # "epe" /\ hist.answered /\ hist.recent = <<"q", "q">>)
        => response = "Fixed"

\* C3: at most one request is accepted (enqueued or being executed) at a time
C3_AtMostOneInFlight ==
    Len(_commandQueue) + (IF Executing THEN 1 ELSE 0) <= 1

\* C4: a call made with the modem on while a request is in flight returns Pending
\* at once: it does not go on to enqueue and does not block
C4_SecondCallPending ==
    [][(CallMade /\ InFlight /\ modemOn) => Rejected("Pending")]_vars

\* C5: a synchronous getLocation that enqueued its command and waited returns a
\* terminal outcome of the worker (Fixed, TimedOut or Unavailable), never Idle
C5_SyncReturnsTerminalOutcome ==
    (obs.ev = "return" /\ obs.blocked) => obs.value \in {"Fixed", "TimedOut", "Unavailable"}

\* C6: a getLocationAsync call that returned Acquiring gets its callback: until the
\* callback has run its request is held by the command queue or by the worker
C6_AcquiringGetsCallback ==
    \A c \in Callers :
        cpc[c] = "asyncPending" =>
            \/ \E i \in 1..Len(_commandQueue) : _commandQueue[i].caller = c
            \/ Executing /\ event.caller = c

\* C7: when every fix query reported no fix, TimedOut comes no earlier than
\* maximumFixTime after the start of polling and at most one poll interval later
C7_TimeoutBound ==
    (wpc = "finish" /\ power /\ response = "TimedOut" /\ hist.allNoFix) =>
        /\ elapsed * TickMs >= _conf.maxFixSeconds * 1000
        /\ elapsed * TickMs <= _conf.maxFixSeconds * 1000 + LOCATION_PERIOD_ACQUIRE_MS

\* C8: once the modem has been identified as unrecognized, every call made with the
\* modem on returns Unsupported at once and enqueues nothing
C8_UnsupportedIsPermanent ==
    [][(CallMade /\ _modemType = "Unsupported" /\ modemOn) =>
          (Rejected("Unsupported") /\ UNCHANGED _commandQueue)]_vars

\* C9: a call made with the modem off returns Unavailable at once, enqueues nothing,
\* runs no detection and leaves the in-flight flag and the hardware state unchanged
C9_ModemOffUnavailable ==
    [][(CallMade /\ ~modemOn) =>
          /\ Rejected("Unavailable")
          /\ UNCHANGED <<_commandQueue, _modemType, _acquiring, cpc, waitLeft,
                         gnssStarted, gnssOn, gnssconfig, antennaHigh>>]_vars

\* a call was rejected with the modem off while an acquisition was in progress
C9_Witness ==
    /\ obs.ev = "return" /\ ~obs.blocked /\ obs.value = "Unavailable"
    /\ ~modemOn
    /\ _acquiring /\ gnssStarted /\ antennaHigh

\* this step is the enqueue of a caller's command on a full command queue
PutOnFullQueue(c) ==
    /\ cpc[c] \in {"syncPut", "asyncPut"}
    /\ cpc'[c] # cpc[c]
    /\ Len(_commandQueue) = QueueDepth

\* C10: when the enqueue fails because the command queue is full the call returns
\* Pending: getLocationAsync does not return Acquiring, getLocation does not wait
C10_FullQueueIsBusy ==
    [][\A c \in Callers :
          PutOnFullQueue(c) => (obs'.ev = "return" /\ obs'.value = "Pending"
                                /\ cpc'[c] = "idle")]_vars

\* the step in which the worker leaves the poll loop's aftermath: hardware revert,
\* outcome, delivery
Completing == wpc = "finish" /\ wpc' = "release"

\* C11: when an acquisition completes on BG95, whatever its outcome, GNSS has been
\* switched off, the antenna pin is low and gnssStarted is false by the time the
\* completion is delivered; on EG91 gnssStarted stays true and neither the GNSS mode
\* nor the antenna pin is touched
C11_HardwareRevert ==
    [][Completing =>
         /\ _modemType = "BG95_M5" => ~gnssStarted' /\ ~gnssOn' /\ ~antennaHigh'
         /\ _modemType = "EG91" => /\ gnssStarted /\ gnssStarted'
                                   /\ gnssOn' = gnssOn
                                   /\ antennaHigh' = antennaHigh]_vars
C11_Witness ==
    /\ wpc = "release" /\ _modemType = "BG95_M5" /\ response = "Fixed"
    /\ Len(_responseQueue) > 0 /\ ~gnssStarted /\ ~gnssOn /\ ~antennaHigh

\* C12: a poll iteration that finds the modem off at its top ends the loop at once and
\* the outcome is Unavailable; Fixed is the outcome only when the stabilization test
\* passed on the last poll, and TimedOut only when the loop ended with the modem seen
\* on and the maximum fix time used up
C12_OutcomeCauses ==
    [][/\ (wpc = "loopTop" /\ wpc' # "loopTop" /\ ~modemOn) => (wpc' = "finish" /\ ~power')
       /\ Completing =>
            /\ ~power => response' = "Unavailable"
            /\ response' = "Fixed" => Settled(fixCount, lastLocation, _conf)
            /\ response' = "TimedOut" =>
                  (power /\ elapsed * TickMs >= _conf.maxFixSeconds * 1000)]_vars
C12_Witness ==
    /\ wpc = "release" /\ ~power /\ response = "Unavailable" /\ lastResults = "Unavailable"
    /\ elapsed * TickMs >= _conf.maxFixSeconds * 1000

\* C13: when an acquisition ends with an outcome other than Fixed, the point kept for
\* getLastLocationPoint and the point handed to the caller have fix = 0
C13_NonFixedPointIsZeroed ==
    (wpc = "release" /\ response # "Fixed") =>
        /\ lastLocation.fix = 0
        /\ event.sendResponse => point[event.caller].fix = 0

\* C14: getStatus answers Acquiring exactly while a request is in flight, from its
\* enqueue until its completion is delivered, and Idle at all other times
C14_StatusTracksAcquisition == (getStatus = "Acquiring") <=> InFlight

\* a request of caller c that will end in its callback: queued, or being executed
HookServed(c) ==
    \/ \E i \in 1..Len(_commandQueue) :
          _commandQueue[i].caller = c /\ _commandQueue[i].doneCallback
    \/ Executing /\ event.caller = c /\ event.doneCallback

\* C15: addToEventHandler always returns. Its wait loop ends only through the callback
\* of its own request, so a handler inside the loop always has a request queued or
\* being executed
C15_HookAlwaysReturns == \A c \in Callers : cpc[c] = "hookSpin" => HookServed(c)

\* C16: every accepted acquisition ends with the in-flight flag back to false, and
\* whenever none is in flight a request made with the modem on and supported is
\* accepted
C16_AcquisitionEndsAndRestarts ==
    /\ InFlight ~> (~InFlight /\ wpc = "idle" /\ ~_acquiring)
    /\ []((~InFlight /\ wpc = "idle" /\ modemOn /\ _modemType \in {"BG95_M5", "EG91"})
            => PreCheck.result = "Accepted")
C16_Witness ==
    /\ ~InFlight /\ wpc = "idle" /\ ~_acquiring /\ lastResults \in {"Fixed", "TimedOut"}
    /\ modemOn /\ PreCheck.result = "Accepted"

\* C17: begin(config) leaves the engine's configuration equal to the configuration
\* passed, member by member: constellations, antenna pin, HDOP threshold,
\* horizontal-accuracy threshold and maximum fix time
C17_BeginCopiesConfiguration ==
    [][\A cfg \in BeginConfigs :
         Begin(cfg) => (_conf' = cfg /\ _antennaPowerPin' = cfg.antennaPin)]_vars

\* the configuration code the variant's table gives for a constellation selection,
\* -1 where no configuration command is to be issued
TableCode(modemType, flags) ==
    IF modemType = "BG95_M5"
      THEN CASE flags = LOCATION_CONST_GPS_ONLY -> 1
             [] flags = LOCATION_CONST_GPS_GLONASS -> 1
             [] flags = LOCATION_CONST_GPS_BEIDOU -> 2
             [] flags = LOCATION_CONST_GPS_GALILEO -> 3
             [] flags = LOCATION_CONST_GPS_QZSS -> 4
      ELSE CASE flags = LOCATION_CONST_GPS_ONLY -> 0
             [] flags = LOCATION_CONST_GPS_GLONASS -> 4
             [] flags = LOCATION_CONST_GPS_BEIDOU -> 7
             [] flags = LOCATION_CONST_GPS_GALILEO -> 6
             [] flags = LOCATION_CONST_GPS_QZSS -> -1

\* C18: once begin() has identified the modem as BG95 or EG91, the configuration
\* command it issued carries the code of the variant's table for the configured
\* constellation, and none was issued only for EG91 with QZSS
C18_ConstellationCodes ==
    (begun /\ _modemType \in {"BG95_M5", "EG91"}) =>
        gnssconfig = TableCode(_modemType, _conf.constellations)

\* C19: the command that enables the accuracy estimate and the accuracy query are
\* issued only on BG95, never on EG91 or on an unsupported modem, and the accuracy
\* query only in a poll whose fix query parsed as a fix
C19_AccuracyOnlyWhenSupported ==
    [][/\ (nmeaEpe' /\ ~nmeaEpe) => _modemType = "BG95_M5"
       /\ (wpc' = "epe" /\ wpc # "epe") =>
            /\ _modemType = "BG95_M5"
            /\ wpc = "query"
            /\ parseQlocResponse(_locBuffer', _qlocContext, lastLocation).ret = CME_FIX
            /\ fixCount' = fixCount + 1]_vars
C19_Witness == wpc = "epe" /\ _modemType = "BG95_M5" /\ nmeaEpe /\ fixCount = 1

\* a fix-query answer that is not a complete fix report: empty, cut short, or other text
Malformed(buf) ==
    \/ buf.kind \in {"empty", "other"}
    \/ buf.kind = "qloc" /\ buf.nfields < QlocFieldCount

\* C20: for a malformed or partial line in the fix buffer the parser reports no match,
\* the poll is not counted as a fix, and the output point is left unchanged
C20_MalformedLineIsNoMatch ==
    [][(wpc = "query" /\ wpc' # "query" /\ Malformed(_locBuffer')) =>
         /\ parseQlocResponse(_locBuffer', _qlocContext, lastLocation).ret # CME_FIX
         /\ fixCount' = fixCount
         /\ lastLocation' = lastLocation]_vars

(***************************************************************************)
(* The parsers on error lines                                              *)
(***************************************************************************)
\* what the modem can answer to the fix query: a fix report, the error lines with a
\* code of the switch, with a code outside it, with no number, and a line that is neither
CmeLines ==
    {QlocLine(QlocFieldCount, 1, 1), CmeLine(504), CmeLine(506), CmeLine(CME_NO_FIX),
     CmeLine(100), CmeLine(-1), OtherLine}
CmeNext == Step({"t1"},
                {cfg \in Configs : cfg.maxFixSeconds = 2 /\ cfg.antennaPin = PIN_INVALID},
                {FALSE}, {DEV_QUECTEL_EG91_EX, DEV_QUECTEL_BG95_M5},
                CmeLines, {EpeLine(4, 10, 0)}, MaxPollCalls)
CmeSpec == Init /\ [][CmeNext]_vars

\* the location query of the worker has returned and its buffer has been parsed
QueryParsed == wpc = "query" /\ wpc' # "query"

\* C21: a response that carries a recognized modem error code is never put through the
\* fix-field parsing (the parse context and the parsed fields of the point stay as they
\* were) and is never counted as a fix; a complete fix report, which has no error
\* marker, is parsed into the context and the point and is counted as a fix
C21_ErrorBeforeFixParsing ==
    [][QueryParsed =>
         /\ (_locBuffer'.kind = "cme" /\ _locBuffer'.code \in CmeWhitelist) =>
               /\ _qlocContext' = _qlocContext
               /\ lastLocation'.horizontalDop = lastLocation.horizontalDop
               /\ lastLocation'.fix \in {0, lastLocation.fix}
               /\ fixCount' = fixCount
               /\ parseQlocResponse(_locBuffer', _qlocContext, lastLocation).ret # CME_FIX
         /\ (_locBuffer'.kind = "qloc" /\ _locBuffer'.nfields = QlocFieldCount) =>
               /\ _qlocContext'.hdop = _locBuffer'.hdop
               /\ _qlocContext'.fix = _locBuffer'.fix
               /\ lastLocation'.fix = _locBuffer'.fix
               /\ lastLocation'.horizontalDop = _locBuffer'.hdop
               /\ fixCount' = fixCount + 1
               /\ parseQlocResponse(_locBuffer', _qlocContext, lastLocation).ret = CME_FIX]_vars
\* a recognized error line has been received after a fix report had been parsed
C21_Witness ==
    /\ wpc = "delay"
    /\ _locBuffer.kind = "cme" /\ _locBuffer.code \in CmeWhitelist \ {CME_NO_FIX}
    /\ _qlocContext.fix = 1

\* C22: the error-line parser maps the codes 504, 505, 516, 522 and 549 to their enum
\* values and every other input to NONE (0): an error line whose code is not one of
\* these, and a line with no error marker
C22_OnlyWhitelistedCodesMapped ==
    [][QueryParsed =>
         parseCmeError(_locBuffer') =
           IF _locBuffer'.kind = "cme" /\ _locBuffer'.code \in {504, 505, 516, 522, 549}
             THEN _locBuffer'.code
             ELSE CME_NONE]_vars

(***************************************************************************)
(* Acquisitions that publish, and publishLocationEvent                     *)
(***************************************************************************)
PubNext ==
    \/ Step({"t1"},
            {cfg \in Configs : cfg.maxFixSeconds = 2 /\ cfg.antennaPin = PIN_INVALID},
            {TRUE}, {DEV_QUECTEL_BG95_M5},
            {QlocLine(QlocFieldCount, 1, 1), CmeLine(CME_NO_FIX)}, {EpeLine(4, 10, 0)},
            MaxPollCalls)
    \/ PublishLocationEvent("t1", {})
PubSpec == Init /\ [][PubNext]_vars

\* publishLocationEvent alone, on points of every shape
PayloadNext == \E c \in Callers : PublishLocationEvent(c, PublishPoints)
PayloadSpec == Init /\ [][PayloadNext]_vars

\* the serialization the payload-field rule describes
ExpectedLoc(pt) ==
    IF pt.fix = 0
      THEN [lck |-> 0, names |-> <<>>]
      ELSE [lck |-> 1,
            names |-> <<"time", "lat", "lon", "alt", "hd", "spd", "hdop">>
                      \o (IF pt.horizontalAccuracy > 0 THEN <<"h_acc">> ELSE <<>>)
                      \o (IF pt.verticalAccuracy > 0 THEN <<"v_acc">> ELSE <<>>)
                      \o <<"nsat", "ttff">>]

\* C23: in every payload handed to the publish transport, a point with fix 0 is
\* serialized to the unlocked flag alone, and a point with a fix to the locked flag
\* followed by time, lat, lon, alt, hd, spd, hdop, nsat and ttff, with h_acc present
\* exactly when the horizontal accuracy is positive and v_acc exactly when the vertical
\* accuracy is positive
C23_PayloadFields ==
    wire # NoWire =>
      /\ wire.payload.loc = ExpectedLoc(wire.pt)
      /\ wire.pt.fix = 0 => wire.payload.loc.names = <<>>
      /\ \A i \in DOMAIN wire.payload.loc.names :
            /\ wire.payload.loc.names[i] = "h_acc" => wire.pt.horizontalAccuracy > 0
            /\ wire.payload.loc.names[i] = "v_acc" => wire.pt.verticalAccuracy > 0
\* a payload of a point with a fix, a positive horizontal accuracy and no vertical one
C23_Witness ==
    /\ wire # NoWire
    /\ wire.pt.fix # 0
    /\ wire.pt.horizontalAccuracy > 0
    /\ wire.pt.verticalAccuracy <= 0
    /\ wire.payload.loc.names = <<"time", "lat", "lon", "alt", "hd", "spd", "hdop", "h_acc",
                                  "nsat", "ttff">>

C25_RequestIdIncreases ==
    [][/\ Len(sent') > Len(sent) =>
            \A i \in DOMAIN sent : sent[i] < sent'[Len(sent')]
       /\ (obs'.ev = "return" /\ obs'.api = "publishLocationEvent" /\ wire' = NoWire) =>
            (obs'.value = "false" /\ _reqid' = _reqid)]_vars

\* QuectelGnssRK::getHasFix
getHasFix == lastResults = "Fixed"

\* C26: the cached outcome and the cached point are written by the worker thread only:
\* no step in which a call returns on a caller thread changes them, and once an
\* acquisition has ended Fixed getHasFix stays true until the worker completes another
\* acquisition
C26_WorkerIsSoleCacheWriter ==
    [][/\ obs'.ev = "return" => (lastResults' = lastResults /\ lastLocation' = lastLocation)
       /\ (getHasFix /\ ~Completing) => getHasFix']_vars

\* C27: every modem command is issued by the worker thread: a step that sends the
\* constellation configuration, enables GNSS or enables the accuracy estimate is a step
\* of the worker, never the step of a public entry point on a caller thread
C27_ModemCommandsOnWorkerOnly ==
    [][(gnssconfig' # gnssconfig \/ (gnssOn' /\ ~gnssOn) \/ (nmeaEpe' /\ ~nmeaEpe)) =>
         (wpc' # wpc /\ begun' = begun /\ obs'.ev # "return")]_vars

(***************************************************************************)
(* The application's state machine (main.cpp)                              *)
(*                                                                         *)
(* millis() is followed on a grid of UpdatePeriodMs; within MaxUptimeSeconds *)
(* the 32-bit counter does not wrap, so its differences are plain ones.    *)
(***************************************************************************)
errorRetryDelay == 60000
UpdatePeriodMs == 1000

AppStates ==
    {"WAITING_FOR_CLOUD", "WAITING_FIRST_PUBLISH", "IDLE", "LOCATION_BUILDING",
     "LOCATION_PUBLISHING", "LOCATION_WAITING", "ERROR_RECOVERY"}

\* LocationFusionRK::Status: the values updateStateMachine names, "other" for any other
FusionStatuses ==
    {"idle", "publishing", "publishSuccess", "publishFail", "locEnhancedWait",
     "locEnhancedSuccess", "locEnhancedFail", "other"}

\* shouldRetry without the delay
shouldRetryAtOnce == currentState = "ERROR_RECOVERY"

\* LocationStateMachine::shouldRetry
shouldRetry ==
    /\ currentState = "ERROR_RECOVERY"
    /\ millis - stateEntryTime > errorRetryDelay

\* case LOCATION_BUILDING of updateStateMachine
WhileBuilding(status) ==
    CASE status = "publishSuccess" -> "LOCATION_PUBLISHING"
      [] status = "publishFail" -> "ERROR_RECOVERY"
      [] status = "locEnhancedWait" -> "LOCATION_WAITING"
      [] status = "locEnhancedSuccess" -> "IDLE"
      [] status = "idle" -> "IDLE"
      [] OTHER -> "LOCATION_BUILDING"

\* case LOCATION_WAITING starting a new cycle when the enhanced location failed
WhileWaitingRebuilds(status) ==
    IF status = "locEnhancedSuccess" THEN "IDLE"
    ELSE IF status = "locEnhancedFail" THEN "LOCATION_BUILDING"
    ELSE "LOCATION_WAITING"

\* case LOCATION_WAITING of updateStateMachine
WhileWaiting(status) ==
    IF status = "locEnhancedSuccess" THEN "IDLE"
    ELSE IF status = "locEnhancedFail" THEN "IDLE"
    ELSE "LOCATION_WAITING"

\* the switch of updateStateMachine: the state handed to setState (the current state
\* where no branch calls it)
NextState(status, connected) ==
    CASE currentState = "WAITING_FOR_CLOUD" ->
           IF connected THEN "WAITING_FIRST_PUBLISH" ELSE currentState
      [] currentState = "WAITING_FIRST_PUBLISH" ->
           IF status = "publishing" THEN "LOCATION_BUILDING" ELSE currentState
      [] currentState = "IDLE" ->
           IF status = "publishing" THEN "LOCATION_BUILDING" ELSE currentState
      [] currentState = "LOCATION_BUILDING" -> WhileBuilding(status)
      [] currentState = "LOCATION_PUBLISHING" ->
           IF status = "locEnhancedWait" THEN "LOCATION_WAITING"
           ELSE IF status = "idle" THEN "IDLE"
           ELSE currentState
      [] currentState = "LOCATION_WAITING" -> WhileWaiting(status)
      [] currentState = "ERROR_RECOVERY" ->
           IF shouldRetry THEN "IDLE" ELSE currentState

\* LocationStateMachine::setState
setState(newState) ==
    IF currentState # newState
      THEN /\ previousState' = currentState
           /\ currentState' = newState
           /\ stateEntryTime' = millis
      ELSE UNCHANGED <<previousState, currentState, stateEntryTime>>

\* updateStateMachine, called from loop(), with the fusion status and the cloud
\* connection it reads
updateStateMachine(status, connected) ==
    /\ IF millis - lastUpdate < UpdatePeriodMs
         THEN UNCHANGED <<currentState, previousState, stateEntryTime,
                          firstPublishCompleted, lastUpdate>>
         ELSE /\ lastUpdate' = millis
              /\ setState(NextState(status, connected))
              /\ firstPublishCompleted' =
                   IF currentState = "WAITING_FIRST_PUBLISH" /\ status = "publishing"
                     THEN TRUE ELSE firstPublishCompleted
    /\ obs' = NoObs
    /\ wire' = NoWire
    /\ UNCHANGED <<engineVars, workerVars, callerVars, boardVars, hist, sent, millis>>

\* time passes; loop() runs continuously, so an update is at most one period late
AppTick ==
    /\ millis < MaxUptimeSeconds * 1000
    /\ millis - lastUpdate <= UpdatePeriodMs
    /\ millis' = millis + UpdatePeriodMs
    /\ obs' = NoObs
    /\ wire' = NoWire
    /\ UNCHANGED <<engineVars, workerVars, callerVars, boardVars, hist, sent>>
    /\ UNCHANGED <<currentState, previousState, stateEntryTime, firstPublishCompleted,
                   lastUpdate>>

AppNext ==
    \/ \E status \in FusionStatuses, connected \in BOOLEAN :
         updateStateMachine(status, connected)
    \/ AppTick
AppSpec == Init /\ [][AppNext]_vars

\* an update that passed the rate limit
UpdateRan == lastUpdate' # lastUpdate
\* an update that read cloud connection value connected / fusion status status
SawCloud(connected) == \E status \in FusionStatuses : updateStateMachine(status, connected)
SawStatus(status) == \E connected \in BOOLEAN : updateStateMachine(status, connected)
FirstStates == {"WAITING_FOR_CLOUD", "WAITING_FIRST_PUBLISH"}

\* C28: the application takes only the documented transitions: WAITING_FOR_CLOUD is left
\* only to WAITING_FIRST_PUBLISH and only by an update that saw the cloud connected;
\* WAITING_FIRST_PUBLISH is left only to LOCATION_BUILDING and only on status
\* publishing; LOCATION_BUILDING is entered only from WAITING_FIRST_PUBLISH or IDLE;
\* LOCATION_WAITING is left only to IDLE; the first two states are never re-entered;
\* and the first-publish-complete flag is true in every other state
C28_DocumentedTransitions ==
    [][/\ (currentState = "WAITING_FOR_CLOUD" /\ currentState' # currentState) =>
            (currentState' = "WAITING_FIRST_PUBLISH" /\ SawCloud(TRUE) /\ ~SawCloud(FALSE))
       /\ (currentState = "WAITING_FIRST_PUBLISH" /\ currentState' # currentState) =>
            /\ currentState' = "LOCATION_BUILDING"
            /\ SawStatus("publishing")
            /\ \A status \in FusionStatuses \ {"publishing"} : ~SawStatus(status)
       /\ (currentState' = "LOCATION_BUILDING" /\ currentState' # currentState) =>
            currentState \in {"WAITING_FIRST_PUBLISH", "IDLE"}
       /\ (currentState = "LOCATION_WAITING" /\ currentState' # currentState) =>
            currentState' = "IDLE"
       /\ (currentState' \in FirstStates /\ currentState' # currentState) =>
            (currentState = "WAITING_FOR_CLOUD" /\ currentState' = "WAITING_FIRST_PUBLISH")
       /\ currentState' \notin FirstStates => firstPublishCompleted']_vars
\* a whole cycle has been followed: the enhanced location came and the machine is idle
C28_Witness ==
    /\ currentState = "IDLE"
    /\ previousState = "LOCATION_WAITING"
    /\ firstPublishCompleted

\* C29: ERROR_RECOVERY is entered only from LOCATION_BUILDING and only by an update that
\* saw the publish fail; it is left only to IDLE and only when more than 60 seconds
\* have passed since it was entered; until then no update moves the machine out of it,
\* and the first update that runs after them moves it to IDLE
C29_ErrorRecoveryDelay ==
    [][/\ (currentState' = "ERROR_RECOVERY" /\ currentState # "ERROR_RECOVERY") =>
            /\ currentState = "LOCATION_BUILDING"
            /\ SawStatus("publishFail")
            /\ \A status \in FusionStatuses \ {"publishFail"} : ~SawStatus(status)
            /\ stateEntryTime' = millis
       /\ (currentState = "ERROR_RECOVERY" /\ currentState' # "ERROR_RECOVERY") =>
            (currentState' = "IDLE" /\ millis - stateEntryTime > 60 * 1000)
       /\ (currentState = "ERROR_RECOVERY" /\ millis - stateEntryTime <= 60 * 1000) =>
            currentState' = "ERROR_RECOVERY"
       /\ (currentState = "ERROR_RECOVERY" /\ millis - stateEntryTime > 60 * 1000
             /\ UpdateRan) =>
            currentState' = "IDLE"]_vars
\* the machine has come out of ERROR_RECOVERY
C29_Witness ==
    /\ currentState = "IDLE"
    /\ previousState = "ERROR_RECOVERY"
    /\ stateEntryTime > 60 * 1000

(***************************************************************************)
(* The HDOP threshold setter                                               *)
(***************************************************************************)
\* the integers the application passes to hdopThreshold()
HdopInputs == -3 .. 103
\* LocationConfiguration().hdopThreshold(hdop)
WithHdop(hdop) == [DefaultConf EXCEPT !.hdop = hdopThreshold(hdop)]
HdopNext ==
    \/ \E hdop \in HdopInputs : Begin(WithHdop(hdop))
    \/ ModemPower
    \/ CacheIdentity(DevIds)
HdopSpec == Init /\ [][HdopNext]_vars

\* C30: whatever integer is passed to the HDOP threshold setter, the threshold the
\* engine gets lies in 0..100: 0 for a value below 0, 100 for a value above 100, and the
\* value itself otherwise
C30_HdopThresholdClamped ==
    [][\A hdop \in HdopInputs :
         Begin(WithHdop(hdop)) =>
           /\ _conf'.hdop \in 0 .. 100
           /\ hdop < 0 => _conf'.hdop = 0
           /\ hdop > 100 => _conf'.hdop = 100
           /\ hdop \in 0 .. 100 => _conf'.hdop = hdop]_vars
\* a configuration whose threshold was clamped from above has been handed to begin()
C30_Witness == begun /\ _conf.hdop = 100 /\ _conf = WithHdop(103)

(***************************************************************************)
(* Fix reports of a moving receiver                                        *)
(***************************************************************************)
\* reports at rest, and at 36 km/h (10 m/s) on course 90 deg 30 min
MovingLines ==
    {QlocLine(QlocFieldCount, 1, 1), QlocMoving(QlocFieldCount, 1, 1, 90, 30, 36)}
MovingNext == Step({"t1"},
                   {cfg \in Configs : cfg.maxFixSeconds = 2 /\ cfg.antennaPin = PIN_INVALID},
                   {FALSE}, {DEV_QUECTEL_EG91_EX, DEV_QUECTEL_BG95_M5},
                   MovingLines, {EpeLine(4, 10, 0)}, MaxPollCalls)
MovingSpec == Init /\ [][MovingNext]_vars

\* C31: for every parsed fix report the speed stored in the point is the reported km/h
\* speed converted to metres per second (speed * 3600 = km/h * 1000), and the heading
\* stored is degrees plus minutes / 60 (in sixtieths: degrees * 60 + minutes)
C31_SpeedAndHeadingConverted ==
    [][(QueryParsed /\ _locBuffer'.kind = "qloc" /\ _locBuffer'.nfields = QlocFieldCount) =>
         /\ lastLocation'.speed * 3600 = _locBuffer'.speedKmph * 1000
         /\ lastLocation'.heading = _locBuffer'.cogDegrees * 60 + _locBuffer'.cogMinutes]_vars

\* C32: the time-to-first-fix delivered with an acquisition belongs to that acquisition:
\* it is zero when the acquisition counted no fix report, and otherwise it is a delay
\* measured from this acquisition's start of polling, so it never exceeds the time this
\* acquisition has been polling; on both variants, also when the receiver was left
\* running by an earlier acquisition
C32_TimeToFirstFixIsCurrent ==
    [][Completing =>
         /\ fixCount = 0 => lastLocation'.timeToFirstFix = 0
         /\ lastLocation'.timeToFirstFix <= elapsed * TickMs]_vars

\* C33: the response queue is empty whenever no synchronous getLocation call is blocked
\* waiting, so no outcome of an earlier acquisition is left for a later call
C33_NoStaleResponse ==
    (\A c \in Callers : cpc[c] # "syncWait") => Len(_responseQueue) = 0

\* C34: the worker writes into the output point of a synchronous getLocation only while
\* that call is still blocked inside getLocation, never after the call has returned
C34_PointWrittenOnlyWhileBlocked ==
    [][(Completing /\ event.sendResponse) => cpc[event.caller] = "syncWait"]_vars

\* C35: when a synchronous getLocation returns an outcome the worker posted, the
\* in-flight flag is already false: getStatus right after the return yields Idle and a
\* call that follows at once is not rejected with Pending
C35_FlagClearAtSyncReturn ==
    [][\A c \in Callers :
         (cpc[c] = "syncWait" /\ cpc'[c] = "idle" /\ Len(_responseQueue) > 0) =>
           (~_acquiring' /\ PreCheck'.result # "Pending")]_vars

\* the worker is inside the asynchronous completion callback: it has invoked
\* event.doneCallback and has not left case Acquire yet
InCallback == wpc = "release" /\ event.doneCallback /\ ~event.sendResponse

\* C36: the in-flight flag is true during the whole completion callback and is cleared
\* only after it, so getStatus inside the callback yields Acquiring, and a getLocation
\* or getLocationAsync issued during the callback is rejected with Pending and enqueues
\* nothing
C36_FlagHeldThroughCallback ==
    [][InCallback =>
         /\ _acquiring /\ getStatus = "Acquiring"
         /\ _acquiring' \/ wpc' = "idle"
         /\ CallMade => (Rejected("Pending") /\ UNCHANGED <<_commandQueue, cpc>>)]_vars

\* C36 as the code has it: the flag is held through the callback and getStatus yields
\* Acquiring; a call issued during the callback enqueues nothing and is rejected with
\* Pending while the modem is on, and with Unavailable when the modem is off, because
\* the power test comes before the in-flight test
C36_FlagHeldCallRejected ==
    [][InCallback =>
         /\ _acquiring /\ getStatus = "Acquiring"
         /\ _acquiring' \/ wpc' = "idle"
         /\ CallMade => /\ Rejected(IF modemOn THEN "Pending" ELSE "Unavailable")
                        /\ UNCHANGED <<_commandQueue, cpc>>]_vars
\* a call made during the completion callback has been rejected with Pending
C36_Witness ==
    /\ InCallback
    /\ obs.ev = "return" /\ ~obs.blocked /\ obs.value = "Pending"
    /\ _acquiring /\ _commandQueue = <<>>

\* C37: every fix the poll loop counts corresponds to a fix-report line received in that
\* same iteration: an iteration whose query brought no response line is not counted,
\* whatever the response buffer still holds
C37_CountedFixWasReceived ==
    [][(QueryParsed /\ fixCount' = fixCount + 1) =>
         hist'.recent[Len(hist'.recent)] # "f"]_vars

\* C38: whenever the worker issues a fix query, the receiver is on: enable-GNSS was
\* issued since the modem was last powered on and no GNSS-off was issued after it
C38_QueryOnlyWithGnssEnabled ==
    [][(wpc = "loopTop" /\ wpc' = "query") => gnssOn]_vars

\* C39: with an antenna-power pin configured, whenever the worker is idle between
\* acquisitions the antenna pin is asserted if and only if gnssStarted is true; the pin
\* is asserted by the time enable-GNSS is issued and is de-asserted only once GNSS-off
\* was issued, and only a step of the worker thread changes the pin
C39_AntennaFollowsGnssStarted ==
    [][PIN_INVALID # _antennaPowerPin' =>
         /\ wpc' = "idle" => (antennaHigh' <=> gnssStarted')
         /\ (gnssOn' /\ ~gnssOn) => antennaHigh'
         /\ (antennaHigh /\ ~antennaHigh') => ~gnssOn'
         /\ antennaHigh' # antennaHigh => wpc' # wpc]_vars

\* the worker is idle after an acquisition that left the receiver and its antenna on
C39_Witness ==
    /\ wpc = "idle" /\ PIN_INVALID # _antennaPowerPin
    /\ lastResults = "Fixed"
    /\ antennaHigh /\ gnssStarted

\* the states of a publish cycle under way
InPublishCycle == currentState \in {"LOCATION_BUILDING", "LOCATION_PUBLISHING", "LOCATION_WAITING"}

\* C40: from LOCATION_BUILDING, LOCATION_PUBLISHING and LOCATION_WAITING, once the fusion
\* status is back to idle and stays idle the state machine reaches IDLE: an update that
\* runs in one of these states and reads the status idle moves the machine to IDLE
C40_IdleStatusLeadsToIdle ==
    [][(UpdateRan /\ InPublishCycle /\ SawStatus("idle")) => currentState' = "IDLE"]_vars

====
